---- MODULE Spec2Model ----
(***************************************************************************)
(* A model of convert_tum_to_bf/tum_to_bf.py: the conversion of scenes in  *)
(* the TUM RGB-D layout to the BundleFusion layout.                        *)
(*                                                                         *)
(* Representation.                                                         *)
(*  - A Python str is a sequence of one-character strings, so that         *)
(*    sorted(), lower(), endswith(), rsplit(), `in` and float() are        *)
(*    computed on the characters as Python computes them.                  *)
(*  - A timestamp is float(stem) counted in hundredths of a second         *)
(*    (float("9.99") is 999, float("10") is 1000); the tokens of the       *)
(*    input pools are plain decimals with at most two fractional digits,   *)
(*    on which the subtraction and the comparison with margin are exact.   *)
(*    margin = 0.02 is 2.                                                  *)
(*  - A depth image is one 16-bit pixel.                                    *)
(*  - A line of groundtruth.txt is the sequence of its whitespace          *)
(*    separated tokens, without leading whitespace; the blank line is the  *)
(*    empty sequence.                                                      *)
(*  - One iteration of the loop over rgb_entries is one step.              *)
(*                                                                         *)
(* Left out: the decoding and encoding of the images, the rotation matrix  *)
(* of the pose file (a pose file is known by the pose entry it is written  *)
(* from), os.makedirs(dest_dir), and the forms of float() other than plain *)
(* decimals (exponents, signs, inf, nan).                                  *)
(***************************************************************************)
EXTENDS Integers, Sequences, FiniteSets, TLC

VARIABLES
    source_isdir,   \* os.path.isdir(source_dir)
    source,         \* the entries of source_dir: name -> entry
    margin,         \* the margin parameter of combine_and_rename_files
    pc,             \* the position of the program
    todo,           \* the names main's loop has still to visit
    scene_name,     \* main's loop variable
    rgb_entries,    \* combine_and_rename_files: rgb_entries
    rgb_pos,        \* position of the for loop in rgb_entries
    depth_entries,  \* combine_and_rename_files: depth_entries
    pose_entries,   \* combine_and_rename_files: pose_entries
    frame_counter,  \* combine_and_rename_files: frame_counter
    frames,         \* the matches of this scene: frame_id, rgb, closest_depth, closest_pose
    last,           \* the branch the last step took
    dest            \* what has been written under dest_dir

vars == <<source_isdir, source, margin, pc, todo, scene_name, rgb_entries, rgb_pos,
          depth_entries, pose_entries, frame_counter, frames, last, dest>>

-----------------------------------------------------------------------------
(* Characters and strings *)

Digits == <<"0", "1", "2", "3", "4", "5", "6", "7", "8", "9">>

UpperCase == <<"A", "B", "C", "D", "E", "F", "G", "H", "I", "J", "K", "L", "M",
               "N", "O", "P", "Q", "R", "S", "T", "U", "V", "W", "X", "Y", "Z">>

LowerCase == <<"a", "b", "c", "d", "e", "f", "g", "h", "i", "j", "k", "l", "m",
               "n", "o", "p", "q", "r", "s", "t", "u", "v", "w", "x", "y", "z">>

\* The characters of the model in the order of their code points.
CodePoints == <<"#", "-", ".">> \o Digits \o UpperCase \o <<"_">> \o LowerCase

Ord(c) == CHOOSE i \in 1..Len(CodePoints) : CodePoints[i] = c

IsDigit(c) == c \in {Digits[i] : i \in 1..Len(Digits)}

DigitVal(c) == (CHOOSE i \in 1..Len(Digits) : Digits[i] = c) - 1

\* str.lower() on one character
LowerChar(c) ==
    IF c \in {UpperCase[i] : i \in 1..Len(UpperCase)}
    THEN LowerCase[CHOOSE i \in 1..Len(UpperCase) : UpperCase[i] = c]
    ELSE c

\* str.lower()
Lower(s) == [i \in 1..Len(s) |-> LowerChar(s[i])]

\* a < b on str: the first differing code point decides, a proper prefix is smaller
StrLess(a, b) ==
    \E i \in 1..Len(b) :
        /\ \A j \in 1..(i - 1) : j <= Len(a) /\ a[j] = b[j]
        /\ IF i > Len(a) THEN TRUE ELSE Ord(a[i]) < Ord(b[i])

\* sorted(S) for a set S of distinct str
RECURSIVE Sorted(_)
Sorted(S) ==
    IF S = {} THEN <<>>
    ELSE LET m == CHOOSE x \in S : \A y \in S \ {x} : StrLess(x, y)
         IN  <<m>> \o Sorted(S \ {m})

\* s.endswith(suffix)
EndsWith(s, suffix) ==
    /\ Len(suffix) <= Len(s)
    /\ SubSeq(s, Len(s) - Len(suffix) + 1, Len(s)) = suffix

\* key in s
Contains(s, key) ==
    \E i \in 1..(Len(s) - Len(key) + 1) : SubSeq(s, i, i + Len(key) - 1) = key

\* f.rsplit(".", 1)[0]
Stem(f) ==
    IF \E i \in 1..Len(f) : f[i] = "."
    THEN LET p == CHOOSE i \in 1..Len(f) :
                      f[i] = "." /\ \A j \in (i + 1)..Len(f) : f[j] # "."
         IN  SubSeq(f, 1, p - 1)
    ELSE f

\* float(s) succeeds: digits with at most one point and at least one digit
IsFloat(s) ==
    /\ {i \in 1..Len(s) : ~IsDigit(s[i]) /\ s[i] # "."} = {}
    /\ Cardinality({i \in 1..Len(s) : s[i] = "."}) <= 1
    /\ {i \in 1..Len(s) : IsDigit(s[i])} # {}

RECURSIVE IntOf(_)
IntOf(ds) == IF ds = <<>> THEN 0
             ELSE IntOf(SubSeq(ds, 1, Len(ds) - 1)) * 10 + DigitVal(ds[Len(ds)])

\* float(s), in hundredths
Float(s) ==
    LET p    == IF \E i \in 1..Len(s) : s[i] = "."
                THEN CHOOSE i \in 1..Len(s) : s[i] = "." ELSE Len(s) + 1
        frac == SubSeq(s \o <<"0", "0", "0">>, p + 1, p + 2)
    IN  IntOf(SubSeq(s, 1, p - 1)) * 100 + IntOf(frac)

Abs(x) == IF x < 0 THEN 0 - x ELSE x

-----------------------------------------------------------------------------
(* combine_and_rename_files: the loader *)

\* the three required inputs of a scene folder exist
HasRequiredInputs(e) == e.has_rgb /\ e.has_depth /\ e.has_pose

PngSuffix == <<".", "p", "n", "g">>
JpgSuffix == <<".", "j", "p", "g">>

\* f.lower().endswith((".png", ".jpg"))
IsRgbFile(f) == EndsWith(Lower(f), PngSuffix) \/ EndsWith(Lower(f), JpgSuffix)

\* f.lower().endswith(".png")
IsDepthFile(f) == EndsWith(Lower(f), PngSuffix)

\* sorted(f for f in os.listdir(rgb_path) if ...)
RgbFiles(e) == Sorted({f \in e.rgb : IsRgbFile(f)})

\* sorted(f for f in os.listdir(depth_path) if ...)
DepthFiles(e) == Sorted({f \in DOMAIN e.depth : IsDepthFile(f)})

\* [(float(f.rsplit(".", 1)[0]), f) for f in files]
Entries(files) == [i \in 1..Len(files) |-> <<Float(Stem(files[i])), files[i]>>]

\* line.strip() and not line.startswith("#")
IsPoseLine(line) == line # <<>> /\ line[1][1] # "#"

\* pose_lines
PoseLines(e) == SelectSeq(e.groundtruth, IsPoseLine)

\* (ts, data) for each of pose_lines: ts = float(parts[0]), data = parts[1:]
PoseEntries(lines) == [i \in 1..Len(lines) |-> <<Float(lines[i][1]), Tail(lines[i])>>]

\* every float() of lines 58, 59 and 70 succeeds
LoadParses(e) ==
    /\ {f \in e.rgb : IsRgbFile(f) /\ ~IsFloat(Stem(f))} = {}
    /\ {f \in DOMAIN e.depth : IsDepthFile(f) /\ ~IsFloat(Stem(f))} = {}
    /\ {i \in 1..Len(e.groundtruth) :
           IsPoseLine(e.groundtruth[i]) /\ ~IsFloat(e.groundtruth[i][1])} = {}

-----------------------------------------------------------------------------
(* combine_and_rename_files: the synchronizer *)

\* min(entries, key=lambda x: abs(t - x[0])): the first entry of the least key
Closest(entries, t) ==
    entries[CHOOSE i \in 1..Len(entries) :
               /\ \A j \in 1..Len(entries) :
                     Abs(t - entries[i][1]) <= Abs(t - entries[j][1])
               /\ \A j \in 1..(i - 1) :
                     Abs(t - entries[i][1]) < Abs(t - entries[j][1])]

\* the bug of a strict comparison: abs(t - closest[0]) < margin
WithinMarginStrict(t, closest, m) == Abs(t - closest[1]) < m

\* not (abs(t - closest[0]) > margin)
WithinMargin(t, closest, m) == ~(Abs(t - closest[1]) > m)

\* the bug of entries.pop(0): the head is removed, whatever was matched
RemovePopFirst(entries, x) == Tail(entries)

\* entries.remove(x): without the first entry equal to x
Remove(entries, x) ==
    LET i == CHOOSE k \in 1..Len(entries) :
                 entries[k] = x /\ \A j \in 1..(k - 1) : entries[j] # x
    IN  SubSeq(entries, 1, i - 1) \o SubSeq(entries, i + 1, Len(entries))

\* f"frame-{frame_counter:06d}": the six digits
FrameId(n) ==
    <<(n \div 100000) % 10, (n \div 10000) % 10, (n \div 1000) % 10,
      (n \div 100) % 10, (n \div 10) % 10, n % 10>>

\* the bug of rounding to the nearest unit
DepthConvertRounded(v) == (((v % 65536) + 2) \div 5) % 65536

\* depth_img.astype(np.uint16) // 5
DepthConvert(v) == (v % 65536) \div 5

\* tx, ty, tz, qx, qy, qz, qw = map(float, closest_pose[1]) succeeds
PoseDataParses(data) ==
    /\ Len(data) = 7
    /\ {i \in 1..Len(data) : ~IsFloat(data[i])} = {}

\* open(path, "w") / Image.save(path): a file of that name is replaced
WriteFile(files, f) ==
    {g \in files : ~(g.scene = f.scene /\ g.frame = f.frame)} \cup {f}

-----------------------------------------------------------------------------
(* generate_info_txt *)

Freiburg1 == <<"f", "r", "e", "i", "b", "u", "r", "g", "1">>
Freiburg2 == <<"f", "r", "e", "i", "b", "u", "r", "g", "2">>
Freiburg3 == <<"f", "r", "e", "i", "b", "u", "r", "g", "3">>

Intrinsics1 == "517.3 0 318.6 0 0 516.5 255.3 0 0 0 1 0 0 0 0 1"
Intrinsics2 == "520.9 0 325.1 0 0 521.0 249.7 0 0 0 1 0 0 0 0 1"
Intrinsics3 == "535.4 0 320.1 0 0 539.2 247.6 0 0 0 1 0 0 0 0 1"
IntrinsicsDefault == "525.0 0 319.5 0 0 525.0 239.5 0 0 0 1 0 0 0 0 1"

\* the bug of testing folder_name itself, not folder_name.lower()
SelectIntrinsicsCaseSensitive(folder_name) ==
    IF Contains(folder_name, Freiburg1) THEN Intrinsics1
    ELSE IF Contains(folder_name, Freiburg2) THEN Intrinsics2
    ELSE IF Contains(folder_name, Freiburg3) THEN Intrinsics3
    ELSE IntrinsicsDefault

\* the if / elif chain on folder_name.lower()
SelectIntrinsics(folder_name) ==
    LET folder_name_lower == Lower(folder_name)
    IN  IF Contains(folder_name_lower, Freiburg1) THEN Intrinsics1
        ELSE IF Contains(folder_name_lower, Freiburg2) THEN Intrinsics2
        ELSE IF Contains(folder_name_lower, Freiburg3) THEN Intrinsics3
        ELSE IntrinsicsDefault

-----------------------------------------------------------------------------
(* The inputs: what source_dir holds when main starts *)

MaxRgb == 3         \* color files in a scene
MaxDepth == 2       \* depth files in a scene
MaxPoseLines == 2   \* lines of a groundtruth.txt
MaxMargin == 2      \* the margins tried, in hundredths of a second
MaxBatch == 2       \* entries of source_dir in a batch
MaxNameParts == 2   \* parts a scene name is put together from

\* margin: float = 0.02
DefaultMargin == 2

SubsetsUpTo(S, n) == {X \in SUBSET S : Cardinality(X) <= n}

SeqsUpTo(S, n) == UNION {[1..k -> S] : k \in 0..n}

\* an 8-token pose line: timestamp tx ty tz qx qy qz qw
PoseLine(ts) == <<ts, <<"0">>, <<"0">>, <<"0">>, <<"0">>, <<"0">>, <<"0">>, <<"1">>>>

\* a 7-token pose line: qw is missing
ShortPoseLine(ts) == <<ts, <<"0">>, <<"0">>, <<"0">>, <<"0">>, <<"0">>, <<"0">>>>

\* a pose line whose tx is no number
NonNumericPoseLine(ts) ==
    <<ts, <<"x">>, <<"0">>, <<"0">>, <<"0">>, <<"0">>, <<"0">>, <<"1">>>>

CommentLine == <<<<"#">>, <<"t", "x">>>>

BlankLine == <<>>

\* an entry of source_dir that is a file
FileEntry ==
    [is_dir |-> FALSE, has_rgb |-> FALSE, has_depth |-> FALSE, has_pose |-> FALSE,
     rgb |-> {}, depth |-> <<>>, groundtruth |-> <<>>]

\* a scene folder with rgb/, depth/ and groundtruth.txt
Scene(rgb, depth, groundtruth) ==
    [is_dir |-> TRUE, has_rgb |-> TRUE, has_depth |-> TRUE, has_pose |-> TRUE,
     rgb |-> rgb, depth |-> depth, groundtruth |-> groundtruth]

\* the folders that lack rgb/, depth/ or groundtruth.txt
IncompleteScenes ==
    {[is_dir |-> TRUE, has_rgb |-> r, has_depth |-> d, has_pose |-> p,
      rgb |-> {}, depth |-> <<>>, groundtruth |-> <<>>] :
        <<r, d, p>> \in (BOOLEAN \X BOOLEAN \X BOOLEAN) \ {<<TRUE, TRUE, TRUE>>}}

Scenes(rgbPool, maxRgb, depthPool, maxDepth, pixels, linePool, maxLines) ==
    {Scene(rgb, depth, gt) :
        rgb \in SubsetsUpTo(rgbPool, maxRgb),
        depth \in UNION {[D -> pixels] : D \in SubsetsUpTo(depthPool, maxDepth)},
        gt \in SeqsUpTo(linePool, maxLines)}

SceneName == <<"s", "c", "e", "n", "e">>

Input(listing, m) == [isdir |-> TRUE, listing |-> listing, margin |-> m]

\* a little of everything: one small entry, at the default margin
Catalog ==
    Scenes({<<"1", "0", ".", "p", "n", "g">>}, 1, {<<"1", "0", ".", "p", "n", "g">>, <<"1", "0", ".", "0", "4", ".", "p", "n", "g">>}, 1, {5000},
           {PoseLine(<<"1", "0">>), PoseLine(<<"1", "0", ".", "0", "4">>), NonNumericPoseLine(<<"1", "0">>),
            PoseLine(<<"1", "x">>)}, 1)
    \cup IncompleteScenes \cup {FileEntry}

CatalogInputs ==
    {Input(SceneName :> e, DefaultMargin) : e \in Catalog}
    \cup {[isdir |-> FALSE, listing |-> <<>>, margin |-> DefaultMargin]}

\* streams sampled around the tenth second, at every margin
SyncInputs ==
    {Input(SceneName :> e, m) :
        e \in Scenes({<<"9", ".", "9", "8", ".", "p", "n", "g">>, <<"9", ".", "9", "9", ".", "p", "n", "g">>, <<"1", "0", ".", "p", "n", "g">>, <<"1", "0", ".", "0", "1", ".", "j", "p", "g">>, <<"1", "0", ".", "0", "2", ".", "p", "n", "g">>}, MaxRgb,
                     {<<"9", ".", "9", "9", ".", "p", "n", "g">>, <<"1", "0", ".", "p", "n", "g">>, <<"1", "0", ".", "0", "2", ".", "p", "n", "g">>}, MaxDepth, {5000},
                     {PoseLine(<<"9", ".", "9", "9">>), PoseLine(<<"1", "0", ".", "0", "1">>), PoseLine(<<"1", "0", ".", "0", "4">>)},
                     MaxPoseLines),
        m \in 0..MaxMargin}

\* directory listings and pose logs of every shape
LoaderInputs ==
    {Input(SceneName :> e, DefaultMargin) :
        e \in Scenes({<<"9", ".", "9", "9", ".", "p", "n", "g">>, <<"1", "0", ".", "p", "n", "g">>, <<"1", "0", ".", "0", "1", ".", "J", "P", "G">>, <<"n", "o", "t", "e", "s", ".", "t", "x", "t">>, <<"x", ".", "p", "n", "g">>}, MaxRgb,
                     {<<"1", "0", ".", "p", "n", "g">>, <<"1", "0", ".", "P", "N", "G">>, <<"x", ".", "p", "n", "g">>}, MaxDepth, {5000},
                     {PoseLine(<<"1", "0">>), ShortPoseLine(<<"1", "0">>), ShortPoseLine(<<"5", "0">>),
                      NonNumericPoseLine(<<"1", "0">>), NonNumericPoseLine(<<"5", "0">>),
                      PoseLine(<<"1", "x">>), CommentLine, BlankLine}, MaxPoseLines)}

\* the largest value of a 16-bit pixel
MaxPixel == 65535

\* one frame whose depth image holds any 16-bit value
DepthInputs ==
    {Input(SceneName :> e, DefaultMargin) :
        e \in {Scene({<<"1", "0", ".", "p", "n", "g">>},
                      (<<"1", "0", ".", "p", "n", "g">> :> v),
                      <<PoseLine(<<"1", "0">>)>>) : v \in 0..MaxPixel}}

NameParts == {<<"f", "r", "e", "i", "b", "u", "r", "g", "1">>, <<"F", "r", "e", "i", "b", "u", "r", "g", "2">>, <<"F", "R", "E", "I", "B", "U", "R", "G", "3">>, <<"f", "r", "e", "i", "b", "u", "r", "g">>, <<"1">>, <<"_", "x", "y", "z">>}

RECURSIVE Concat(_)
Concat(parts) == IF parts = <<>> THEN <<>> ELSE Head(parts) \o Concat(Tail(parts))

\* scene folders of many names
InfoInputs ==
    {Input(Concat(parts) :> e, DefaultMargin) :
        parts \in SeqsUpTo(NameParts, MaxNameParts) \ {<<>>},
        e \in {Scene({<<"1", "0", ".", "p", "n", "g">>}, (<<"1", "0", ".", "p", "n", "g">> :> 5000), <<PoseLine(<<"1", "0">>)>>)}
              \cup {x \in IncompleteScenes : ~x.has_pose /\ x.has_rgb /\ x.has_depth}}

BatchNames == {<<"a">>, <<"b">>, <<"c">>}

\* several entries in source_dir
BatchInputs ==
    {Input(l, DefaultMargin) :
        l \in UNION {[N -> Catalog] : N \in SubsetsUpTo(BatchNames, MaxBatch) \ {{}}}}

InitWith(inputs) ==
    /\ \E in \in inputs :
          /\ source_isdir = in.isdir
          /\ source = in.listing
          /\ margin = in.margin
    /\ pc = "main"
    /\ todo = <<>>
    /\ scene_name = <<>>
    /\ rgb_entries = <<>>
    /\ rgb_pos = 1
    /\ depth_entries = <<>>
    /\ pose_entries = <<>>
    /\ frame_counter = 0
    /\ frames = <<>>
    /\ last = "none"
    /\ dest = [dirs |-> {}, color |-> {}, depth |-> {}, pose |-> {}, info |-> {}]

Init == InitWith(SyncInputs \cup CatalogInputs)

LoaderInit == InitWith(LoaderInputs \cup CatalogInputs)

DepthInit == InitWith(DepthInputs \cup CatalogInputs)

InfoInit == InitWith(InfoInputs \cup CatalogInputs)

BatchInit == InitWith(BatchInputs \cup CatalogInputs)

-----------------------------------------------------------------------------
(* main *)

\* if not os.path.isdir(source_dir): return
Main_InvalidSource ==
    /\ pc = "main"
    /\ ~source_isdir
    /\ pc' = "done"
    /\ last' = "invalid source"
    /\ UNCHANGED <<source_isdir, source, margin, todo, scene_name, rgb_entries, rgb_pos,
                   depth_entries, pose_entries, frame_counter, frames, dest>>

\* for scene_name in sorted(os.listdir(source_dir))
Main_Start ==
    /\ pc = "main"
    /\ source_isdir
    /\ todo' = Sorted(DOMAIN source)
    /\ pc' = "next"
    /\ last' = "start"
    /\ UNCHANGED <<source_isdir, source, margin, scene_name, rgb_entries, rgb_pos,
                   depth_entries, pose_entries, frame_counter, frames, dest>>

\* if not os.path.isdir(scene_path): continue
Main_SkipFile ==
    /\ pc = "next"
    /\ todo # <<>>
    /\ ~source[Head(todo)].is_dir
    /\ scene_name' = Head(todo)
    /\ todo' = Tail(todo)
    /\ last' = "skip file"
    /\ UNCHANGED <<source_isdir, source, margin, pc, rgb_entries, rgb_pos,
                   depth_entries, pose_entries, frame_counter, frames, dest>>

\* os.makedirs(output_scene_path); combine_and_rename_files(scene_path, output_scene_path)
Main_EnterScene ==
    /\ pc = "next"
    /\ todo # <<>>
    /\ source[Head(todo)].is_dir
    /\ scene_name' = Head(todo)
    /\ todo' = Tail(todo)
    /\ dest' = [dest EXCEPT !.dirs = @ \cup {Head(todo)}]
    /\ rgb_entries' = <<>>
    /\ rgb_pos' = 1
    /\ depth_entries' = <<>>
    /\ pose_entries' = <<>>
    /\ frame_counter' = 0
    /\ frames' = <<>>
    /\ pc' = "combine"
    /\ last' = "enter scene"
    /\ UNCHANGED <<source_isdir, source, margin>>

\* the loop over the scenes is over
Main_Done ==
    /\ pc = "next"
    /\ todo = <<>>
    /\ pc' = "done"
    /\ last' = "done"
    /\ UNCHANGED <<source_isdir, source, margin, todo, scene_name, rgb_entries, rgb_pos,
                   depth_entries, pose_entries, frame_counter, frames, dest>>

-----------------------------------------------------------------------------
(* combine_and_rename_files *)

\* a required folder or file does not exist: print, return
Combine_SkipIncomplete ==
    /\ pc = "combine"
    /\ ~HasRequiredInputs(source[scene_name])
    /\ pc' = "info"
    /\ last' = "skip scene"
    /\ UNCHANGED <<source_isdir, source, margin, todo, scene_name, rgb_entries, rgb_pos,
                   depth_entries, pose_entries, frame_counter, frames, dest>>

\* the three streams are loaded; frame_counter = 0
Combine_Load ==
    /\ pc = "combine"
    /\ HasRequiredInputs(source[scene_name])
    /\ LoadParses(source[scene_name])
    /\ rgb_entries' = Entries(RgbFiles(source[scene_name]))
    /\ rgb_pos' = 1
    /\ depth_entries' = Entries(DepthFiles(source[scene_name]))
    /\ pose_entries' = PoseEntries(PoseLines(source[scene_name]))
    /\ frame_counter' = 0
    /\ pc' = "loop"
    /\ last' = "load"
    /\ UNCHANGED <<source_isdir, source, margin, todo, scene_name, frames, dest>>

\* a float() of the loader raises ValueError, which nothing catches
Combine_LoadRaise ==
    /\ pc = "combine"
    /\ HasRequiredInputs(source[scene_name])
    /\ ~LoadParses(source[scene_name])
    /\ pc' = "raised"
    /\ last' = "raise load"
    /\ UNCHANGED <<source_isdir, source, margin, todo, scene_name, rgb_entries, rgb_pos,
                   depth_entries, pose_entries, frame_counter, frames, dest>>

\* the loop variables of for rgb_ts, rgb_filename in rgb_entries
rgb_ts == rgb_entries[rgb_pos][1]
rgb_filename == rgb_entries[rgb_pos][2]

frame_id == FrameId(frame_counter)

closest_depth == Closest(depth_entries, rgb_ts)

closest_pose == Closest(pose_entries, rgb_ts)

InLoop == pc = "loop" /\ rgb_pos <= Len(rgb_entries)

\* if not depth_entries: break
Loop_BreakDepth ==
    /\ InLoop
    /\ depth_entries = <<>>
    /\ pc' = "info"
    /\ last' = "break depth"
    /\ UNCHANGED <<source_isdir, source, margin, todo, scene_name, rgb_entries, rgb_pos,
                   depth_entries, pose_entries, frame_counter, frames, dest>>

\* the bug of a counter that counts the skipped color entries too
Loop_SkipDepthCounting ==
    /\ InLoop
    /\ depth_entries # <<>>
    /\ ~WithinMargin(rgb_ts, closest_depth, margin)
    /\ rgb_pos' = rgb_pos + 1
    /\ frame_counter' = frame_counter + 1
    /\ last' = "skip depth"
    /\ UNCHANGED <<source_isdir, source, margin, pc, todo, scene_name, rgb_entries,
                   depth_entries, pose_entries, frames, dest>>

\* the closest depth frame is further than margin: continue
Loop_SkipDepth ==
    /\ InLoop
    /\ depth_entries # <<>>
    /\ ~WithinMargin(rgb_ts, closest_depth, margin)
    /\ rgb_pos' = rgb_pos + 1
    /\ last' = "skip depth"
    /\ UNCHANGED <<source_isdir, source, margin, pc, todo, scene_name, rgb_entries,
                   depth_entries, pose_entries, frame_counter, frames, dest>>

\* if not pose_entries: break
Loop_BreakPose ==
    /\ InLoop
    /\ depth_entries # <<>>
    /\ WithinMargin(rgb_ts, closest_depth, margin)
    /\ pose_entries = <<>>
    /\ pc' = "info"
    /\ last' = "break pose"
    /\ UNCHANGED <<source_isdir, source, margin, todo, scene_name, rgb_entries, rgb_pos,
                   depth_entries, pose_entries, frame_counter, frames, dest>>

\* the bug of removing the depth candidate before the pose is checked
Loop_SkipPoseConsuming ==
    /\ InLoop
    /\ depth_entries # <<>>
    /\ WithinMargin(rgb_ts, closest_depth, margin)
    /\ pose_entries # <<>>
    /\ ~WithinMargin(rgb_ts, closest_pose, margin)
    /\ depth_entries' = Remove(depth_entries, closest_depth)
    /\ rgb_pos' = rgb_pos + 1
    /\ last' = "skip pose"
    /\ UNCHANGED <<source_isdir, source, margin, pc, todo, scene_name, rgb_entries,
                   pose_entries, frame_counter, frames, dest>>

\* the closest pose is further than margin: continue
Loop_SkipPose ==
    /\ InLoop
    /\ depth_entries # <<>>
    /\ WithinMargin(rgb_ts, closest_depth, margin)
    /\ pose_entries # <<>>
    /\ ~WithinMargin(rgb_ts, closest_pose, margin)
    /\ rgb_pos' = rgb_pos + 1
    /\ last' = "skip pose"
    /\ UNCHANGED <<source_isdir, source, margin, pc, todo, scene_name, rgb_entries,
                   depth_entries, pose_entries, frame_counter, frames, dest>>

\* depth and pose are within margin
Matches ==
    /\ InLoop
    /\ depth_entries # <<>>
    /\ WithinMargin(rgb_ts, closest_depth, margin)
    /\ pose_entries # <<>>
    /\ WithinMargin(rgb_ts, closest_pose, margin)

\* FrameMatch: what lines 94 to 99 settle
FrameMatch ==
    [frame_id |-> frame_id, rgb |-> rgb_entries[rgb_pos],
     depth |-> closest_depth, pose |-> closest_pose]

ColorFile == [scene |-> scene_name, frame |-> frame_id, src |-> rgb_filename]

DepthFile ==
    [scene |-> scene_name, frame |-> frame_id, src |-> closest_depth[2],
     pixel |-> DepthConvert(source[scene_name].depth[closest_depth[2]])]

\* the 4x4 matrix is not computed: the file is known by the pose it is written from
PoseFile == [scene |-> scene_name, frame |-> frame_id, src |-> closest_pose]

\* a match: both entries are removed, the counter is incremented, the three files written
Loop_Match ==
    /\ Matches
    /\ PoseDataParses(closest_pose[2])
    /\ depth_entries' = Remove(depth_entries, closest_depth)
    /\ pose_entries' = Remove(pose_entries, closest_pose)
    /\ frame_counter' = frame_counter + 1
    /\ frames' = Append(frames, FrameMatch)
    /\ dest' = [dest EXCEPT !.color = WriteFile(@, ColorFile),
                            !.depth = WriteFile(@, DepthFile),
                            !.pose = WriteFile(@, PoseFile)]
    /\ rgb_pos' = rgb_pos + 1
    /\ last' = "match"
    /\ UNCHANGED <<source_isdir, source, margin, pc, todo, scene_name, rgb_entries>>

\* a match whose pose data is not seven numbers: color and depth are written, then
\* line 121 raises ValueError, which nothing catches
Loop_MatchRaise ==
    /\ Matches
    /\ ~PoseDataParses(closest_pose[2])
    /\ depth_entries' = Remove(depth_entries, closest_depth)
    /\ pose_entries' = Remove(pose_entries, closest_pose)
    /\ frame_counter' = frame_counter + 1
    /\ frames' = Append(frames, FrameMatch)
    /\ dest' = [dest EXCEPT !.color = WriteFile(@, ColorFile),
                            !.depth = WriteFile(@, DepthFile)]
    /\ pc' = "raised"
    /\ last' = "raise pose"
    /\ UNCHANGED <<source_isdir, source, margin, todo, scene_name, rgb_entries, rgb_pos>>

\* rgb_entries is exhausted: return
Loop_End ==
    /\ pc = "loop"
    /\ rgb_pos > Len(rgb_entries)
    /\ pc' = "info"
    /\ last' = "end"
    /\ UNCHANGED <<source_isdir, source, margin, todo, scene_name, rgb_entries, rgb_pos,
                   depth_entries, pose_entries, frame_counter, frames, dest>>

-----------------------------------------------------------------------------
(* generate_info_txt *)

InfoFile ==
    [scene |-> scene_name, frame |-> <<>>,
     color_intrinsic |-> SelectIntrinsics(scene_name),
     depth_intrinsic |-> SelectIntrinsics(scene_name)]

\* generate_info_txt(output_scene_path, scene_name)
GenerateInfoTxt ==
    /\ pc = "info"
    /\ dest' = [dest EXCEPT !.info = WriteFile(@, InfoFile)]
    /\ pc' = "next"
    /\ last' = "info"
    /\ UNCHANGED <<source_isdir, source, margin, todo, scene_name, rgb_entries, rgb_pos,
                   depth_entries, pose_entries, frame_counter, frames>>

-----------------------------------------------------------------------------

Next ==
    \/ Main_InvalidSource
    \/ Main_Start
    \/ Main_SkipFile
    \/ Main_EnterScene
    \/ Main_Done
    \/ Combine_SkipIncomplete
    \/ Combine_Load
    \/ Combine_LoadRaise
    \/ Loop_BreakDepth
    \/ Loop_SkipDepth
    \/ Loop_BreakPose
    \/ Loop_SkipPose
    \/ Loop_Match
    \/ Loop_MatchRaise
    \/ Loop_End
    \/ GenerateInfoTxt

Spec == Init /\ [][Next]_vars

LoaderSpec == LoaderInit /\ [][Next]_vars

DepthSpec == DepthInit /\ [][Next]_vars

InfoSpec == InfoInit /\ [][Next]_vars

BatchSpec == BatchInit /\ [][Next]_vars

-----------------------------------------------------------------------------
(* The claims *)

\* the streams combine_and_rename_files loaded for the scene being converted
LoadedDepth == Entries(DepthFiles(source[scene_name]))
LoadedPose == PoseEntries(PoseLines(source[scene_name]))

\* how often x occurs in the sequence s
Count(s, x) == Cardinality({i \in 1..Len(s) : s[i] = x})

\* the least distance of t to a timestamp of entries (entries is not empty)
NearestDistance(entries, t) ==
    CHOOSE d \in {Abs(t - entries[i][1]) : i \in 1..Len(entries)} :
        \A j \in 1..Len(entries) : d <= Abs(t - entries[j][1])

\* C1. Consumed-once: no depth entry and no pose entry is assigned to more than one
\* produced frame (a depth entry is a file of depth/, a pose entry is a line of the
\* pose log, so an entry that the log holds n times is assigned at most n times);
\* with a single depth entry at most one frame is produced.
C1_ConsumedOnce ==
    frames # <<>> =>
        /\ \A i \in 1..Len(frames) :
              /\ Count(LoadedDepth, frames[i].depth) = 1
              /\ Count([k \in 1..Len(frames) |-> frames[k].depth], frames[i].depth) = 1
              /\ Count([k \in 1..Len(frames) |-> frames[k].pose], frames[i].pose)
                    <= Count(LoadedPose, frames[i].pose)
        /\ Len(LoadedDepth) = 1 => Len(frames) = 1

\* one depth entry, two color entries both within margin of it, one frame produced
C1_Witness ==
    /\ pc = "info"
    /\ Len(rgb_entries) = 2
    /\ Len(LoadedDepth) = 1
    /\ \A i \in 1..2 : Abs(rgb_entries[i][1] - LoadedDepth[1][1]) <= margin
    /\ Len(frames) = 1
    /\ frames[1].depth = LoadedDepth[1]

\* the frame indices of the files written for the scene being converted
WrittenFrames ==
    {f.frame : f \in {g \in dest.color : g.scene = scene_name}}
    \cup {f.frame : f \in {g \in dest.depth : g.scene = scene_name}}
    \cup {f.frame : f \in {g \in dest.pose : g.scene = scene_name}}

\* C2. Frame index contiguity: while a scene is converted the frame indices written
\* so far are exactly 0 .. k-1, k the number of matches so far; the first match is
\* frame-000000 and a skipped color entry takes no index.
C2_FrameIndexContiguity ==
    pc \in {"combine", "loop", "info", "raised"} =>
        /\ WrittenFrames = {FrameId(k) : k \in 0..(Len(frames) - 1)}
        /\ Len(frames) >= 1 => <<0, 0, 0, 0, 0, 0>> \in WrittenFrames
        /\ Len(frames) >= 2 => <<0, 0, 0, 0, 0, 1>> \in WrittenFrames
        /\ Cardinality(WrittenFrames) = Len(frames)

\* two frames written although the first color entry considered was skipped
C2_Witness ==
    /\ pc = "info"
    /\ Len(frames) = 2
    /\ Len(rgb_entries) = 3
    /\ frames[1].rgb # rgb_entries[1]
    /\ WrittenFrames = {<<0, 0, 0, 0, 0, 0>>, <<0, 0, 0, 0, 0, 1>>}

\* C3. Tolerance boundary: the color entry under consideration is matched with its
\* nearest depth and its nearest pose entry when both are at a distance less than or
\* equal to margin, is not matched when one of them is further than margin, and every
\* produced frame has its depth and its pose timestamp within margin of its color
\* timestamp.
C3_ToleranceBoundary ==
    [][(InLoop /\ depth_entries # <<>> /\ pose_entries # <<>>) =>
          LET dd == NearestDistance(depth_entries, rgb_ts)
              pd == NearestDistance(pose_entries, rgb_ts)
          IN  /\ (dd <= margin /\ pd <= margin) =>
                    /\ Len(frames') = Len(frames) + 1
                    /\ frames'[Len(frames')].rgb = rgb_entries[rgb_pos]
                    /\ Abs(rgb_ts - frames'[Len(frames')].depth[1]) = dd
                    /\ Abs(rgb_ts - frames'[Len(frames')].pose[1]) = pd
              /\ (dd > margin \/ pd > margin) => frames' = frames
              /\ \A i \in 1..Len(frames') :
                    /\ Abs(frames'[i].rgb[1] - frames'[i].depth[1]) <= margin
                    /\ Abs(frames'[i].rgb[1] - frames'[i].pose[1]) <= margin
      ]_vars

\* a frame whose depth entry is exactly margin away from its color entry
C3_Witness ==
    /\ last = "match"
    /\ margin > 0
    /\ Abs(frames[Len(frames)].rgb[1] - frames[Len(frames)].depth[1]) = margin

\* C6. Depth unit conversion: a source pixel v of 0 .. 65535 is written as the
\* truncated quotient v div 5, which is again a 16-bit value: 5000 as 1000, 4999 as 999.
C6_DepthUnitConversion ==
    \A f \in dest.depth :
        LET v == source[f.scene].depth[f.src]
        IN  v \in 0..MaxPixel =>
               /\ f.pixel \in 0..MaxPixel
               /\ 5 * f.pixel <= v
               /\ v < 5 * f.pixel + 5
               /\ v = 5000 => f.pixel = 1000
               /\ v = 4999 => f.pixel = 999

\* the pixel 4999 has been written as 999
C6_Witness ==
    \E f \in dest.depth : source[f.scene].depth[f.src] = 4999 /\ f.pixel = 999

\* key occurs in name, whatever the case of the letters of name
OccursIgnoringCase(name, key) ==
    \E i \in 0..(Len(name) - Len(key)) :
        \A j \in 1..Len(key) : LowerChar(name[i + j]) = key[j]

\* C7. Manifest selection: the preset is that of the first of freiburg1, freiburg2,
\* freiburg3 that occurs in the scene name, letters compared without case; the default
\* preset when none occurs; color and depth intrinsic are the same preset.
C7_ManifestSelection ==
    \A f \in dest.info :
        LET in1 == OccursIgnoringCase(f.scene, Freiburg1)
            in2 == OccursIgnoringCase(f.scene, Freiburg2)
            in3 == OccursIgnoringCase(f.scene, Freiburg3)
        IN  /\ in1 => f.color_intrinsic = Intrinsics1
            /\ (~in1 /\ in2) => f.color_intrinsic = Intrinsics2
            /\ (~in1 /\ ~in2 /\ in3) => f.color_intrinsic = Intrinsics3
            /\ (~in1 /\ ~in2 /\ ~in3) => f.color_intrinsic = IntrinsicsDefault
            /\ f.depth_intrinsic = f.color_intrinsic

\* a name with "Freiburg2" in capitals and without freiburg1 got the freiburg2 preset
C7_Witness ==
    \E f \in dest.info :
        /\ Contains(f.scene, <<"F", "r", "e", "i", "b", "u", "r", "g", "2">>)
        /\ ~OccursIgnoringCase(f.scene, Freiburg1)
        /\ f.color_intrinsic = Intrinsics2
        /\ f.depth_intrinsic = Intrinsics2

\* C9. No partial consumption: a step that skips the color entry (its nearest depth
\* entry is further than margin, or its nearest pose entry is) leaves the depth
\* collection, the pose collection and the frame counter unchanged; a step of the loop
\* that removes a depth or a pose entry removes one of each and produces a frame.
C9_NoPartialConsumption ==
    [][/\ (/\ InLoop
           /\ depth_entries # <<>>
           /\ \/ NearestDistance(depth_entries, rgb_ts) > margin
              \/ /\ pose_entries # <<>>
                 /\ NearestDistance(pose_entries, rgb_ts) > margin)
          => /\ depth_entries' = depth_entries
             /\ pose_entries' = pose_entries
             /\ frame_counter' = frame_counter
       /\ (pc = "loop" /\ (depth_entries' # depth_entries \/ pose_entries' # pose_entries))
          => /\ Len(depth_entries') = Len(depth_entries) - 1
             /\ Len(pose_entries') = Len(pose_entries) - 1
             /\ Len(frames') = Len(frames) + 1
             /\ frame_counter' = frame_counter + 1
      ]_vars

\* a color entry was skipped for its pose although a depth entry was within margin of
\* it, and that depth entry went to a later color entry
C9_Witness ==
    /\ last = "match"
    /\ \E k \in 1..(rgb_pos - 2) :
          /\ \A i \in 1..Len(frames) : frames[i].rgb # rgb_entries[k]
          /\ Abs(rgb_entries[k][1] - frames[Len(frames)].depth[1]) <= margin
          /\ frames[Len(frames)].rgb = rgb_entries[rgb_pos - 1]

\* a line of the pose log that is neither blank nor a comment and is not 8 numbers
MalformedPoseLine(line) ==
    /\ line # <<>>
    /\ line[1][1] # "#"
    /\ ~(Len(line) = 8 /\ \A i \in 1..Len(line) : IsFloat(line[i]))

HasMalformedPoseLine(e) ==
    \E i \in 1..Len(e.groundtruth) : MalformedPoseLine(e.groundtruth[i])

\* a scene folder whose conversion has nothing to fail on
ValidScene(e) ==
    /\ e.is_dir
    /\ HasRequiredInputs(e)
    /\ LoadParses(e)
    /\ ~HasMalformedPoseLine(e)

\* C4. Scene isolation: a malformed pose file in one scene does not keep a later
\* scene with valid inputs from being converted: the batch is never aborted by such a
\* scene while a valid scene is still to be visited.
C4_SceneIsolation ==
    (pc = "raised" /\ HasMalformedPoseLine(source[scene_name])) =>
        \A i \in 1..Len(todo) : ~ValidScene(source[todo[i]])

\* the files written for the scene n
OutputOf(n) ==
    {f.frame : f \in {g \in dest.color : g.scene = n}}
    \cup {f.frame : f \in {g \in dest.depth : g.scene = n}}
    \cup {f.frame : f \in {g \in dest.pose : g.scene = n}}
    \cup {f.frame : f \in {g \in dest.info : g.scene = n}}

\* C5. Missing scene input: a scene folder that lacks rgb/, depth/ or groundtruth.txt
\* raises no error, gets no output, and the batch goes on to the next scene.
C5_MissingSceneInput ==
    \A n \in DOMAIN source :
        (source[n].is_dir /\ ~HasRequiredInputs(source[n])) =>
            /\ OutputOf(n) = {}
            /\ scene_name = n => pc # "raised"

\* C8. Processing order: the color entries are considered in ascending order of
\* their timestamps.
C8_ProcessingOrder ==
    pc = "loop" =>
        \A i \in 1..Len(rgb_entries) : \A j \in i..Len(rgb_entries) :
            rgb_entries[i][1] <= rgb_entries[j][1]

\* C10. Malformed pose line: a scene whose pose log holds a malformed line does not
\* complete its conversion normally.
C10_MalformedPoseLineFatal ==
    (pc = "info" /\ HasRequiredInputs(source[scene_name])) =>
        ~HasMalformedPoseLine(source[scene_name])

====
